---- MODULE Spec2Model ----
(***************************************************************************)
(* Model of launchpad.py: the effect classes (Note, Rectangle, Translate,  *)
(* Sequential, Concurrent, Loop, PaddedEffect, Random, RandomColor), the   *)
(* padding helper pad_effects, and Launchpad.play with its double buffer.  *)
(*                                                                         *)
(* Representation:                                                         *)
(*  - a palette color (a Python int) is the 1-tuple <<i>>; an RGB color    *)
(*    (the namedtuple RGB) is the 3-tuple <<r, g, b>> whose components are *)
(*    counted in units of 1/CompDen, so isinstance(color, RGB) is          *)
(*    Len(color) = 3 and Python's == on colors is TLA+ equality;           *)
(*  - an effect object is a record with a "type" field and the fields its  *)
(*    __init__ assigns; a Random object also carries "id", its identity,   *)
(*    which indexes its mutable field current_effect in the variable cur;  *)
(*  - the value of a call of notes() is a record [t, v, x, st]: t is       *)
(*    "list" (v is the returned list), "None" (the function fell off its   *)
(*    end and returned None) or "raise" (x names the exception); st is the *)
(*    state after the call;                                                *)
(*  - random.randint draws are taken in call order from a stream rnd of    *)
(*    NDraws draws, each mapped onto the requested range.                  *)
(*  - a Note object of a tree is identified by its fields; an assignment  *)
(*    to a field of such an object is recorded in st.w and in the variable *)
(*    writes, and the tree is read through those assignments;              *)
(*  - write_buf advances one sent message at a time: scan is the position  *)
(*    of its loop over the cells.                                          *)
(***************************************************************************)
EXTENDS Integers, Sequences, FiniteSets, TLC

\* ---------------------------------------------------------------- bounds
NDraws == 2         \* random.randint calls modelled per render call
MaxDraw == 3        \* a raw draw is in 0..MaxDraw-1
CompDen == 2        \* an RGB component c is modelled as c * CompDen
MaxCalls == 3       \* calls per behaviour of the effect-algebra driver
MaxSessions == 2    \* play calls per behaviour of the engine
MaxElapsed == 1     \* largest per-tick elapsed time, in seconds
MaxTick == 3        \* largest tick handed to notes() by the driver
NumRand == 3        \* Random objects that exist

\* ------------------------------------------------------ program constants
MAX_BRIGHTNESS == 63
Width == 10
BufSize == Width * Width
NoneVal == -1       \* Python's None in current_effect

\* ------------------------------------------------------------- variables
VARIABLES
    effect,      \* the effect tree in use (root of the session / of the call)
    made,        \* that tree as its constructors built it
    writes,      \* assignments made to fields of Note objects of the trees, in order: <<note before, note after>>
    cur,         \* cur[id]: current_effect of the Random object id
    \* --- effect-algebra driver
    calls,       \* number of calls made so far
    op,          \* the last call: "none", "length" or "notes"
    tick,        \* argument of the last notes() call
    rnd,         \* the randint draws of the last notes() call of the driver (0 where none was taken)
    pre,         \* cur before the last notes() call
    result,      \* value of the last notes() call
    len_result,  \* value of the last length() call
    sels,        \* sels[id]: the indices the Random object id selected at its tick-0 renders, in order
    \* --- Launchpad
    heap,        \* the two list objects allocated in __init__
    buf,         \* self.buf: which list object
    back_buf,    \* self.back_buf: which list object
    pc,          \* position inside play
    bpm,         \* argument of play
    n,           \* effect.length() as evaluated by range() at loop entry
    i,           \* loop variable of play
    sent,        \* messages sent so far by the write_buf call in progress, or by the last one, in order
    scan,        \* write_buf: number of cells its for loop has gone through
    dev,         \* what the device shows: the last color data received per cell
    elapsed,     \* time.time() - start_time of the last pacing step (-1: none yet)
    slept,       \* whether the last pacing step called time.sleep
    warned,      \* whether the last pacing step printed the warning
    \* --- history of the session
    sessions,    \* play calls so far
    rendered,    \* value of effect.notes(i) in the last draw_effect
    frame,       \* current buffer as left by the last draw_effect
    prev_frame,  \* frame of the previous tick (all-off before tick 0)
    ticks,       \* ticks whose draw_effect has run in this session, in order
    blank_start, \* the device showed every cell off when play was called
    exc,         \* exception that ended the session ("" if none)
    log,         \* what the session has done so far, in order: <<kind, iteration>>
    seen         \* <<tick, value, session>> of the renders of the root so far, over the sessions that played it in a row (deterministic roots only)

vars == <<effect, made, writes, cur, calls, op, tick, rnd, pre, result, len_result, sels,
          heap, buf, back_buf, pc, bpm, n, i, sent, dev, elapsed, slept, warned,
          sessions, rendered, frame, prev_frame, ticks, blank_start, exc, scan, log, seen>>

algVars == <<calls, op, tick, pre, result, len_result>>
padVars == <<heap, buf, back_buf, pc, bpm, n, i, sent, dev, elapsed, slept, warned,
             sessions, rendered, frame, prev_frame, ticks, blank_start, exc, scan, log, seen>>

\* ------------------------------------------------------------ colors
Palette(v) == <<v>>
RGB(r, g, b) == <<r, g, b>>
IsRGB(color) == Len(color) = 3
Off == Palette(0)

\* ------------------------------------------------------ effect objects
\* Effect (base class): length() is 1, notes() is [].
BaseEffect == [type |-> "Effect"]

Note(pos, color) == [type |-> "Note", pos |-> pos, color |-> color]

\* the list comprehension of Rectangle.__init__: x outer, y inner
RectangleNotes(ll, ur, color) ==
    LET w == ur[1] + 1 - ll[1]
        h == ur[2] + 1 - ll[2]
    IN  IF w <= 0 \/ h <= 0 THEN <<>>
        ELSE [k \in 1..(w * h) |->
                Note(<<ll[1] + ((k - 1) \div h), ll[2] + ((k - 1) % h)>>, color)]

Rectangle(ll, ur, color) ==
    [type |-> "Rectangle", _notes |-> RectangleNotes(ll, ur, color)]

Fullscreen(color) == Rectangle(<<-1, -1>>, <<8, 8>>, color)
Clear == Fullscreen(Palette(0))

Translate(e, offset) == [type |-> "Translate", child |-> e, offset |-> offset]

Sequential(effects) == [type |-> "Sequential", effects |-> effects]

Loop(e, cnt) == [type |-> "Loop", child |-> e, n |-> cnt]

PaddedEffect(e, length, notes) ==
    [type |-> "PaddedEffect", effect |-> e, _length |-> length, _notes |-> notes]

RandomColor(e, low, high) ==
    [type |-> "RandomColor", child |-> e, low |-> low, high |-> high]

\* ------------------------------------------------------------ length()
RECURSIVE Length(_), SumLength(_, _)

\* Sequential.length: the running sum over self.effects
SumLength(effects, k) ==
    IF k > Len(effects) THEN 0
    ELSE Length(effects[k]) + SumLength(effects, k + 1)

\* variant of FirstLength that falls back to Effect.length for an empty list
FirstLengthDefault(effects) ==
    IF Len(effects) = 0 THEN 1 ELSE Length(effects[1])

\* Concurrent.length and Random.length
FirstLength(effects) ==
    IF Len(effects) = 0 THEN 0 ELSE Length(effects[1])

LoopLength(e) == Length(e.child) * e.n

Length(e) ==
    CASE e.type = "Effect"       -> 1
      [] e.type = "Note"         -> 1
      [] e.type = "Rectangle"    -> 1
      [] e.type = "Translate"    -> Length(e.child)
      [] e.type = "Sequential"   -> SumLength(e.effects, 1)
      [] e.type = "Concurrent"   -> FirstLength(e.effects)
      [] e.type = "Loop"         -> LoopLength(e)
      [] e.type = "PaddedEffect" -> e._length
      [] e.type = "Random"       -> FirstLength(e.effects)
      [] e.type = "RandomColor"  -> Length(e.child)

\* ------------------------------------------------------- pad_effects
\* pad_func is modelled by name: "default" is lambda x: [], "mark" is a
\* pad function returning one fixed positioned color for every effect.
PadFunc(pf, e) ==
    IF pf = "default" THEN <<>> ELSE <<Note(<<0, 0>>, Palette(7))>>

\* variant of MaxLengthFrom that takes the length of the child it starts at
MaxLengthFirst(effects, k) == Length(effects[k])

RECURSIVE MaxLengthFrom(_, _)
\* max(effects, key=lambda x: x.length()).length()
MaxLengthFrom(effects, k) ==
    IF k = Len(effects) THEN Length(effects[k])
    ELSE LET rest == MaxLengthFrom(effects, k + 1)
             mine == Length(effects[k])
         IN  IF mine >= rest THEN mine ELSE rest

PadOne(e, length, pf) ==
    IF Length(e) < length THEN PaddedEffect(e, length, PadFunc(pf, e)) ELSE e

pad_effects(effects, pf) ==
    IF Len(effects) = 0 THEN <<>>
    ELSE LET length == MaxLengthFrom(effects, 1)
         IN  [k \in 1..Len(effects) |-> PadOne(effects[k], length, pf)]

Concurrent(effects) ==
    [type |-> "Concurrent", effects |-> pad_effects(effects, "default")]

\* Random.__init__; id is the identity of the object, whose field
\* current_effect (None at construction) lives in cur[id]
Random(id, effects) ==
    [type |-> "Random", id |-> id, effects |-> pad_effects(effects, "default")]

\* ------------------------------------------------------------- notes()
\* values of a call
Ok(v, st) == [t |-> "list", v |-> v, x |-> "", st |-> st]
PyNone(st) == [t |-> "None", v |-> <<>>, x |-> "", st |-> st]
Raise(x, st) == [t |-> "raise", v |-> <<>>, x |-> x, st |-> st]

\* iterating over the value of a notes() call: None is not iterable
Iter(r) == IF r.t = "None" THEN Raise("TypeError", r.st) ELSE r

\* random.randint(lo, hi) for lo <= hi: the next draw of the stream, mapped
\* onto lo..hi (every value of lo..hi is the image of some draw as long as
\* hi - lo < MaxDraw)
Randint(lo, hi, st, stream) ==
    lo + (stream[((st.p - 1) % NDraws) + 1] % (hi - lo + 1))

Drawn(st) == [st EXCEPT !.p = @ + 1]

\* variant of TranslateNote that moves the note of the child itself
TranslateNoteInPlace(nt, offset) ==
    LET moved == [nt EXCEPT !.pos = <<nt.pos[1] + offset[1], nt.pos[2] + offset[2]>>]
    IN  [note |-> moved, w |-> <<<<nt, moved>>>>]

\* Translate.notes: the element built for the note nt of the child, a new
\* Note object, and the assignments made to nt (none)
TranslateNote(nt, offset) ==
    [note |-> Note(<<nt.pos[1] + offset[1], nt.pos[2] + offset[2]>>, nt.color),
     w |-> <<>>]

\* Translate.notes: the list comprehension
TranslateList(lst, offset) ==
    [k \in 1..Len(lst) |-> TranslateNote(lst[k], offset).note]

RECURSIVE TranslateWrites(_, _, _)
\* Translate.notes: the assignments of the list comprehension from element k on
TranslateWrites(lst, offset, k) ==
    IF k > Len(lst) THEN <<>>
    ELSE TranslateNote(lst[k], offset).w \o TranslateWrites(lst, offset, k + 1)

\* variant of RecolorNote that assigns the color to the note of the child
\* itself, without the copy
RecolorNoteShared(nt, color) ==
    [note |-> [nt EXCEPT !.color = color],
     w |-> <<<<nt, [nt EXCEPT !.color = color]>>>>]

\* RandomColor.notes: new_note = copy.deepcopy(note); new_note.color = ...:
\* the element appended, an object of its own, and the assignments made to
\* the note nt of the child (none)
RecolorNote(nt, color) ==
    [note |-> [nt EXCEPT !.color = color], w |-> <<>>]

\* RandomColor.notes: the loop body, one randint per note of the child
RECURSIVE RecolorFrom(_, _, _, _, _, _)
RecolorFrom(lst, k, acc, e, st, stream) ==
    IF k > Len(lst) THEN Ok(acc, st)
    ELSE IF e.low > e.high THEN Raise("ValueError", st)
    ELSE LET new == RecolorNote(lst[k], Palette(Randint(e.low, e.high, st, stream)))
         IN  RecolorFrom(lst, k + 1, Append(acc, new.note), e,
                         [Drawn(st) EXCEPT !.w = @ \o new.w], stream)

\* variant of SkipCurrent that forgets to step over the current index
SkipCurrentNoShift(drawn, current) == drawn

\* Random.notes, tick == 0, current_effect is not None: the index drawn
\* among len - 1 values skips the current one
SkipCurrent(drawn, current) ==
    IF drawn >= current THEN drawn + 1 ELSE drawn

\* Random.notes, the tick == 0 branch: the state after the selection, or
\* the exception randint raises on an empty range
Select(e, st, stream) ==
    LET k == Len(e.effects)
        old == st.c[e.id]
    IN  IF old = NoneVal
        THEN LET new == Randint(0, k - 1, st, stream)
             IN  Ok(<<>>, [Drawn(st) EXCEPT !.c[e.id] = new,
                                            !.g = Append(@, <<e.id, new>>)])
        ELSE IF k - 2 < 0 THEN Raise("ValueError", st)
        ELSE LET new == SkipCurrent(Randint(0, k - 2, st, stream), old)
             IN  Ok(<<>>, [Drawn(st) EXCEPT !.c[e.id] = new,
                                            !.g = Append(@, <<e.id, new>>)])

\* variant of PadActive that keeps delegating past the child's end
PadActiveAlways(e, t) == TRUE

\* PaddedEffect.notes: which branch is taken
PadActive(e, t) == t < Length(e.effect)

RECURSIVE Notes(_, _, _, _), SequentialFrom(_, _, _, _, _), ConcurrentFrom(_, _, _, _, _, _)

\* variant of SequentialFrom that does not rebase the tick
RECURSIVE SequentialFromNoRebase(_, _, _, _, _)
SequentialFromNoRebase(effects, k, t, st, stream) ==
    IF k > Len(effects) THEN PyNone(st)
    ELSE IF t >= Length(effects[k])
         THEN SequentialFromNoRebase(effects, k + 1, t, st, stream)
         ELSE Notes(effects[k], t, st, stream)

\* Sequential.notes: the for loop from child k on, with the rebased tick
SequentialFrom(effects, k, t, st, stream) ==
    IF k > Len(effects) THEN PyNone(st)
    ELSE IF t >= Length(effects[k])
         THEN SequentialFrom(effects, k + 1, t - Length(effects[k]), st, stream)
         ELSE Notes(effects[k], t, st, stream)

\* Concurrent.notes: the for loop from child k on, lst so far in acc
ConcurrentFrom(effects, k, acc, t, st, stream) ==
    IF k > Len(effects) THEN Ok(acc, st)
    ELSE LET r == Iter(Notes(effects[k], t, st, stream))
         IN  IF r.t = "raise" THEN r
             ELSE ConcurrentFrom(effects, k + 1, acc \o r.v, t, r.st, stream)

\* variant of LoopTick that passes the tick through
LoopTickRaw(e, t) == t

\* Loop.notes
LoopTick(e, t) == t % Length(e.child)

\* Random.notes after the tick == 0 branch
RandomDelegate(e, t, st, stream) ==
    LET current == st.c[e.id]
    IN  IF current = NoneVal THEN Raise("TypeError", st)
        ELSE IF t >= Length(e.effects[current + 1]) THEN Ok(<<>>, st)
        ELSE Notes(e.effects[current + 1], t, st, stream)

Notes(e, t, st, stream) ==
    CASE e.type = "Effect"       -> Ok(<<>>, st)
      [] e.type = "Note"         -> Ok(<<e>>, st)
      [] e.type = "Rectangle"    -> Ok(e._notes, st)
      [] e.type = "Translate"    ->
            LET r == Iter(Notes(e.child, t, st, stream))
            IN  IF r.t = "raise" THEN r
                ELSE Ok(TranslateList(r.v, e.offset),
                        [r.st EXCEPT !.w = @ \o TranslateWrites(r.v, e.offset, 1)])
      [] e.type = "Sequential"   -> SequentialFrom(e.effects, 1, t, st, stream)
      [] e.type = "Concurrent"   -> ConcurrentFrom(e.effects, 1, <<>>, t, st, stream)
      [] e.type = "Loop"         ->
            IF Length(e.child) = 0 THEN Raise("ZeroDivisionError", st)
            ELSE Notes(e.child, LoopTick(e, t), st, stream)
      [] e.type = "PaddedEffect" ->
            IF PadActive(e, t) THEN Notes(e.effect, t, st, stream)
            ELSE Ok(e._notes, st)
      [] e.type = "Random"       ->
            IF Len(e.effects) = 0 THEN Ok(<<>>, st)
            ELSE IF t = 0
                 THEN LET s == Select(e, st, stream)
                      IN  IF s.t = "raise" THEN s
                          ELSE RandomDelegate(e, t, s.st, stream)
                 ELSE RandomDelegate(e, t, st, stream)
      [] e.type = "RandomColor"  ->
            LET r == Iter(Notes(e.child, t, st, stream))
            IN  IF r.t = "raise" THEN r
                ELSE RecolorFrom(r.v, 1, <<>>, e, r.st, stream)

\* the state a call starts in: the Random objects' fields, the first draw,
\* no selection made yet, no field of a note assigned yet
CallState(c) == [c |-> c, p |-> 1, g |-> <<>>, w |-> <<>>]

RECURSIVE Assigned(_, _, _)
\* the Note object nt after the assignments w[k], w[k + 1], ...
Assigned(nt, w, k) ==
    IF k > Len(w) THEN nt
    ELSE Assigned(IF w[k][1] = nt THEN w[k][2] ELSE nt, w, k + 1)

RECURSIVE Written(_, _)
\* the tree e after the assignments w to the Note objects it holds
Written(e, w) ==
    CASE e.type = "Note" -> Assigned(e, w, 1)
      [] e.type = "Rectangle" ->
            [e EXCEPT !._notes = [k \in 1..Len(e._notes) |-> Assigned(e._notes[k], w, 1)]]
      [] e.type \in {"Translate", "Loop", "RandomColor"} ->
            [e EXCEPT !.child = Written(e.child, w)]
      [] e.type \in {"Sequential", "Concurrent", "Random"} ->
            [e EXCEPT !.effects = [k \in 1..Len(e.effects) |-> Written(e.effects[k], w)]]
      [] e.type = "PaddedEffect" ->
            [e EXCEPT !.effect = Written(e.effect, w),
                      !._notes = [k \in 1..Len(e._notes) |-> Assigned(e._notes[k], w, 1)]]
      [] OTHER -> e

RECURSIVE Deterministic(_)
\* e holds no Random and no RandomColor
Deterministic(e) ==
    CASE e.type \in {"Random", "RandomColor"} -> FALSE
      [] e.type \in {"Translate", "Loop"} -> Deterministic(e.child)
      [] e.type \in {"Sequential", "Concurrent"} ->
            \A k \in 1..Len(e.effects) : Deterministic(e.effects[k])
      [] e.type = "PaddedEffect" -> Deterministic(e.effect)
      [] OTHER -> TRUE

\* record the selections g = <<<<id, index>>, ...>> of a call in the history
RECURSIVE Recorded(_, _, _)
Recorded(h, g, k) ==
    IF k > Len(g) THEN h
    ELSE Recorded([h EXCEPT ![g[k][1]] = Append(@, g[k][2])], g, k + 1)

RandIds == 1..NumRand
Streams == [1..NDraws -> 0..(MaxDraw - 1)]
AllOff == [m \in 1..BufSize |-> Off]

\* ------------------------------------------------- the effects exercised
N1 == Note(<<0, 0>>, Palette(1))
N2 == Note(<<1, 0>>, Palette(2))
N3 == Note(<<0, 0>>, Palette(3))
NBorder == Note(<<-1, 1>>, Palette(5))
NRight == Note(<<9, 0>>, Palette(4))
NBelow == Note(<<3, -2>>, Palette(4))
NFar == Note(<<0, 12>>, Palette(4))
NRgb == Note(<<2, 2>>, RGB(1, CompDen, 0))
NRgbWide == Note(<<3, 3>>, RGB(-1, CompDen + 1, 1))
S12 == Sequential(<<N1, N2>>)
S0 == Sequential(<<>>)
C0 == Concurrent(<<>>)
Box == Rectangle(<<0, 0>>, <<0, 1>>, Palette(6))

FirstKids == {N1, S12, S0, C0, Random(1, <<N1, N3>>)}
SecondKids == {N2, S12, S0, Random(2, <<N2, S12>>), RandomColor(N1, 1, 2)}
LoopKids == {N1, S12, Random(1, <<N1, S12, N3>>), Concurrent(<<N1, S12>>)}
PadGroups == {<<N1, S12>>, <<S0, N1, Loop(S12, 2)>>, <<Random(1, <<N1, N2>>), S12>>,
              <<N2, N1>>}

CompGroups == {<<N1>>, <<S12, N1>>, <<N1, S12, N3>>, <<N1, N3, S12>>,
               <<N2, Loop(S12, 2), S12>>}

AlgTrees ==
    {Sequential(<<a, b>>) : a \in FirstKids, b \in SecondKids}
    \cup {Concurrent(grp) : grp \in CompGroups}
    \cup {Random(1, grp) : grp \in CompGroups}
    \cup {Loop(a, cnt) : a \in LoopKids, cnt \in 0..2}
    \cup UNION {{pad_effects(grp, pf)[k] : k \in 1..Len(grp)} :
                    grp \in PadGroups, pf \in {"default", "mark"}}
    \cup {Random(1, <<N1>>), Random(1, <<N1, N2>>), Random(1, <<N1, S12, N3>>),
          Random(1, <<>>), C0, BaseEffect, Box,
          Translate(Box, <<1, -1>>), Translate(S0, <<1, 1>>),
          RandomColor(Box, 1, 2), Loop(N1, 3),
          Concurrent(<<N1, N3, S12>>), Concurrent(<<Random(1, <<N1, N2>>), Random(2, <<N3, N2>>)>>),
          Sequential(<<N1, N2, N3>>), Loop(Random(1, <<N1>>), 2), Loop(S0, 2), S0}

\* ------------------------------------------- effect-algebra driver
\* A caller holds one effect tree and calls length() and notes(tick) on it
\* in any order.
InitAlg ==
    /\ effect \in AlgTrees
    /\ made = effect
    /\ writes = <<>>
    /\ cur = [id \in RandIds |-> NoneVal]
    /\ calls = 0
    /\ op = "none"
    /\ tick = 0
    /\ rnd = [k \in 1..NDraws |-> 0]
    /\ pre = cur
    /\ result = Ok(<<>>, CallState(cur))
    /\ len_result = 0
    /\ sels = [id \in RandIds |-> <<>>]
    /\ heap = [o \in 0..1 |-> AllOff]
    /\ buf = 0
    /\ back_buf = 1
    /\ pc = "idle"
    /\ bpm = 0
    /\ n = 0
    /\ i = 0
    /\ sent = <<>>
    /\ dev = AllOff
    /\ elapsed = -1
    /\ slept = FALSE
    /\ warned = FALSE
    /\ sessions = 0
    /\ rendered = <<>>
    /\ frame = AllOff
    /\ prev_frame = AllOff
    /\ ticks = <<>>
    /\ blank_start = TRUE
    /\ exc = ""
    /\ scan = 0
    /\ log = <<>>
    /\ seen = {}

LengthCall ==
    /\ calls < MaxCalls
    /\ calls' = calls + 1
    /\ op' = "length"
    /\ len_result' = Length(effect)
    /\ UNCHANGED <<effect, made, writes, cur, tick, rnd, pre, result, sels>>
    /\ UNCHANGED padVars

NotesCall ==
    /\ calls < MaxCalls
    /\ \E t \in 0..MaxTick, stream \in Streams :
          LET r == Notes(effect, t, CallState(cur), stream)
          IN  /\ \A k \in 1..NDraws : k >= r.st.p => stream[k] = 0
              /\ tick' = t
              /\ rnd' = stream
              /\ pre' = cur
              /\ result' = r
              /\ cur' = r.st.c
              /\ sels' = Recorded(sels, r.st.g, 1)
              /\ effect' = Written(effect, r.st.w)
              /\ writes' = writes \o r.st.w
    /\ calls' = calls + 1
    /\ op' = "notes"
    /\ UNCHANGED <<made, len_result>>
    /\ UNCHANGED padVars

NextAlg == LengthCall \/ NotesCall

SpecAlg == InitAlg /\ [][NextAlg]_vars

\* ----------------------------------------------- effect-algebra properties
RECURSIVE RandomsOf(_)
\* the Random objects of a tree
RandomsOf(e) ==
    LET kids == CASE e.type \in {"Translate", "Loop", "RandomColor"} -> {e.child}
                  [] e.type = "PaddedEffect" -> {e.effect}
                  [] e.type \in {"Sequential", "Concurrent", "Random"} ->
                        {e.effects[k] : k \in 1..Len(e.effects)}
                  [] OTHER -> {}
    IN  (IF e.type = "Random" THEN {e} ELSE {}) \cup UNION {RandomsOf(c) : c \in kids}

\* C5: for a Random over k >= 2 children, every tick-0 render selects an
\* index in 0..k-1, and never the index the preceding tick-0 render selected.
C5_NoImmediateRepeat ==
    \A r \in RandomsOf(effect) :
        Len(r.effects) >= 2 =>
            \A j \in 1..Len(sels[r.id]) :
                /\ sels[r.id][j] \in 0..(Len(r.effects) - 1)
                /\ j > 1 => sels[r.id][j] # sels[r.id][j - 1]

C5_Witness ==
    \E r \in RandomsOf(effect) :
        /\ Len(r.effects) = 3
        /\ Len(sels[r.id]) = 3
        /\ sels[r.id][1] = sels[r.id][3]

\* C6: every notes(tick) call with 0 <= tick < length() returns a list,
\* whatever calls came before.
C6_RenderTotal ==
    (op = "notes" /\ tick < Length(effect)) => result.t = "list"

\* C8: Sequential(a, b).length() is a.length() + b.length(); its notes(tick)
\* is a.notes(tick) below a.length() and b.notes(tick - a.length()) from
\* there to the end, also when a child has length 0.
C8_SequentialOfTwo ==
    (effect.type = "Sequential" /\ Len(effect.effects) = 2) =>
        LET a == effect.effects[1]
            b == effect.effects[2]
        IN  /\ op = "length" => len_result = Length(a) + Length(b)
            /\ (op = "notes" /\ tick < Length(a)) =>
                    result = Notes(a, tick, CallState(pre), rnd)
            /\ (op = "notes" /\ Length(a) <= tick /\ tick < Length(a) + Length(b)) =>
                    result = Notes(b, tick - Length(a), CallState(pre), rnd)

C8_Witness ==
    /\ effect.type = "Sequential"
    /\ Len(effect.effects) = 2
    /\ Length(effect.effects[1]) = 2
    /\ Length(effect.effects[2]) = 2
    /\ op = "notes"
    /\ tick = 3
    /\ result.t = "list"
    /\ result.v = <<N2>>

C8_WitnessEmptyChild ==
    /\ effect.type = "Sequential"
    /\ Len(effect.effects) = 2
    /\ Length(effect.effects[1]) = 0
    /\ op = "notes"
    /\ tick = 1
    /\ result.v = <<N2>>

\* C9: for a child of length >= 1, Loop(a, n).length() is a.length() * n and
\* its notes(tick), for tick below that, is a.notes(tick mod a.length()).
C9_Loop ==
    (effect.type = "Loop" /\ Length(effect.child) >= 1) =>
        /\ op = "length" => len_result = Length(effect.child) * effect.n
        /\ (op = "notes" /\ tick < Length(effect.child) * effect.n) =>
                result = Notes(effect.child, tick % Length(effect.child),
                               CallState(pre), rnd)

C9_Witness ==
    /\ effect = Loop(S12, 2)
    /\ op = "notes"
    /\ tick = 3
    /\ result.v = <<N2>>

\* C10: the wrapper pad_effects puts around a group member shorter than the
\* group renders the member below the member's length and exactly the
\* configured pad value from there to the group's length.
C10_Padded ==
    \A grp \in PadGroups, pf \in {"default", "mark"} :
        \A k \in 1..Len(grp) :
            (/\ Length(grp[k]) < MaxLengthFrom(grp, 1)
             /\ effect = pad_effects(grp, pf)[k]
             /\ op = "notes") =>
                /\ tick < Length(grp[k]) =>
                        result = Notes(grp[k], tick, CallState(pre), rnd)
                /\ (Length(grp[k]) <= tick /\ tick < MaxLengthFrom(grp, 1)) =>
                        result = Ok(PadFunc(pf, grp[k]), CallState(pre))

C10_Witness ==
    /\ effect = pad_effects(<<N1, S12>>, "mark")[1]
    /\ op = "notes"
    /\ tick = 1
    /\ result.v = <<Note(<<0, 0>>, Palette(7))>>

\* the largest element of a non-empty set of numbers
Largest(S) == CHOOSE m \in S : \A x \in S : m >= x

\* C11: in a Concurrent or a Random built from a non-empty group every
\* element of the padded group has the same length, and length() of the
\* composite is the largest length among the original children, wherever
\* the longest child stands in the group.
C11_CommonLength ==
    \A grp \in CompGroups :
        (effect = Concurrent(grp) \/ effect = Random(1, grp)) =>
            /\ Len(effect.effects) = Len(grp)
            /\ \A k \in 1..Len(grp) :
                  Length(effect.effects[k]) = Largest({Length(grp[j]) : j \in 1..Len(grp)})
            /\ op = "length" =>
                  len_result = Largest({Length(grp[j]) : j \in 1..Len(grp)})

C11_Witness ==
    /\ effect = Concurrent(<<N1, S12, N3>>)
    /\ op = "length"
    /\ len_result = 2
    /\ effect.effects[1].type = "PaddedEffect"
    /\ effect.effects[3].type = "PaddedEffect"

\* ------------------------------------------------------- Launchpad.play
Bpms == {30, 60}

\* cell midi_note of a list object (Python index midi_note)
Cell(b, m) == b[m + 1]

\* variant of Swapped that leaves the two references in place
SwappedNot(b, bb) == <<b, bb>>

\* reset_buf: self.buf, self.back_buf = self.back_buf, self.buf
Swapped(b, bb) == <<bb, b>>

\* variant of Zeroed that leaves the list as it is
ZeroedNot(lst) == lst

\* reset_buf: the loop that stores 0 in every cell of self.buf
Zeroed(lst) == [m \in 1..Len(lst) |-> Off]

\* the heap after reset_buf, given the references after the swap
ResetHeap(h, refs) == [h EXCEPT ![refs[1]] = Zeroed(@)]

\* draw_effect: midi_note = y * 10 + x + 11
MidiNote(pos) == pos[2] * Width + pos[1] + 11

\* draw_effect: the bounds test on midi_note
InBuf(m) == m >= 0 /\ m < BufSize

RECURSIVE Paint(_, _, _)
\* draw_effect: the for loop over the notes, from note k on
Paint(b, notes, k) ==
    IF k > Len(notes) THEN b
    ELSE LET m == MidiNote(notes[k].pos)
         IN  Paint(IF InBuf(m) THEN [b EXCEPT ![m + 1] = notes[k].color] ELSE b,
                   notes, k + 1)

\* int(): truncation toward zero of num / den, den > 0
IntOf(num, den) == IF num >= 0 THEN num \div den ELSE -((-num) \div den)

\* variant of brightness_of_compon without the upper clamp
brightness_no_ceiling(c) ==
    LET scaled == IntOf(MAX_BRIGHTNESS * c, CompDen)
    IN  IF scaled < 0 THEN 0 ELSE scaled

\* rgb_message.brightness_of_compon, for the component c / CompDen
brightness_of_compon(c) ==
    LET scaled == IntOf(MAX_BRIGHTNESS * c, CompDen)
    IN  IF scaled < 0 THEN 0
        ELSE IF scaled > MAX_BRIGHTNESS THEN MAX_BRIGHTNESS
        ELSE scaled

rgb_message(midi_note, rgb) ==
    [type |-> "sysex",
     data |-> <<0, 32, 41, 2, 16, 11>> \o
              <<midi_note, brightness_of_compon(rgb[1]),
                brightness_of_compon(rgb[2]), brightness_of_compon(rgb[3])>>]

\* write_buf: the message built for a changed cell
Message(midi_note, color) ==
    IF IsRGB(color) THEN rgb_message(midi_note, color)
    ELSE [type |-> "note_on", note |-> midi_note, velocity |-> color[1]]

\* write_buf: the cells whose message is sent, in order
Changed(b, bb) ==
    SelectSeq([k \in 1..BufSize |-> k - 1], LAMBDA m : Cell(b, m) # Cell(bb, m))

\* write_buf: the messages handed to port.send, in order
Messages(b, bb) ==
    LET ch == Changed(b, bb)
    IN  [k \in 1..Len(ch) |-> Message(ch[k], Cell(b, ch[k]))]

\* the cell a message addresses and the color data it carries
MsgCell(msg) == IF msg.type = "sysex" THEN msg.data[7] ELSE msg.note
MsgShown(msg) ==
    IF msg.type = "sysex" THEN <<msg.data[8], msg.data[9], msg.data[10]>>
    ELSE <<msg.velocity>>

RECURSIVE Received(_, _, _)
\* the device after receiving the messages from message k on
Received(d, msgs, k) ==
    IF k > Len(msgs) THEN d
    ELSE Received([d EXCEPT ![MsgCell(msgs[k]) + 1] = MsgShown(msgs[k])], msgs, k + 1)

\* play: sleep_time > 0, where sleep_time = 60 / bpm - elapsed and bpm > 0
SleepPositive(b, el) == 60 - el * b > 0

\* write_buf: the first cell from cell m on whose two colors differ, the one
\* the for loop does not skip with continue; BufSize when the loop ends
\* without finding one
NextChanged(b, bb, m) ==
    IF \E c \in m..(BufSize - 1) : Cell(b, c) # Cell(bb, c)
    THEN CHOOSE c \in m..(BufSize - 1) :
            /\ Cell(b, c) # Cell(bb, c)
            /\ \A d \in m..(c - 1) : Cell(b, d) = Cell(bb, d)
    ELSE BufSize

\* variant of Following that paces before it writes
FollowingSleepFirst(p, k, len) ==
    CASE p = "play"        -> IF 0 < len THEN "reset" ELSE "drain_reset"
      [] p = "reset"       -> "draw"
      [] p = "draw"        -> "pace"
      [] p = "pace"        -> "write"
      [] p = "write"       -> IF k < len THEN "reset" ELSE "drain_reset"
      [] p = "drain_reset" -> "drain_write"
      [] p = "drain_write" -> "done"

\* play: the statement that runs after statement p of iteration k of the
\* loop over range(len); "play" is the entry of the loop
Following(p, k, len) ==
    CASE p = "play"        -> IF 0 < len THEN "reset" ELSE "drain_reset"
      [] p = "reset"       -> "draw"
      [] p = "draw"        -> "write"
      [] p = "write"       -> "pace"
      [] p = "pace"        -> IF k + 1 < len THEN "reset" ELSE "drain_reset"
      [] p = "drain_reset" -> "drain_write"
      [] p = "drain_write" -> "done"

PlayRoots ==
    {N1, S12, NRight, NBelow, NFar, NRgb, NRgbWide, C0,
     Sequential(<<N1, N3, N3, NRgb, NRgb>>),
     Concurrent(<<NBorder, Note(<<-1, 1>>, Palette(6)), NRight>>),
     Concurrent(<<N1, N3, S12>>),
     Translate(Box, <<8, 8>>),
     RandomColor(Box, 1, 2),
     Loop(Random(1, <<N1>>), 2),
     Loop(Random(2, <<N1, N2>>), 2),
     Random(3, <<>>), Loop(N1, 0)}

\* Launchpad.__init__ has run; no play call yet
Init ==
    /\ effect = BaseEffect
    /\ made = effect
    /\ writes = <<>>
    /\ cur = [id \in RandIds |-> NoneVal]
    /\ calls = 0
    /\ op = "none"
    /\ tick = 0
    /\ rnd = [k \in 1..NDraws |-> 0]
    /\ pre = cur
    /\ result = Ok(<<>>, CallState(cur))
    /\ len_result = 0
    /\ sels = [id \in RandIds |-> <<>>]
    /\ heap = [o \in 0..1 |-> AllOff]
    /\ buf = 0
    /\ back_buf = 1
    /\ pc = "idle"
    /\ bpm = 0
    /\ n = 0
    /\ i = 0
    /\ sent = <<>>
    /\ dev = AllOff
    /\ elapsed = -1
    /\ slept = FALSE
    /\ warned = FALSE
    /\ sessions = 0
    /\ rendered = <<>>
    /\ frame = AllOff
    /\ prev_frame = AllOff
    /\ ticks = <<>>
    /\ blank_start = TRUE
    /\ exc = ""
    /\ scan = 0
    /\ log = <<>>
    /\ seen = {}

\* play(effect, bpm) is called: period is computed, range(effect.length())
\* is built and the loop is entered (or skipped when the range is empty)
Play ==
    /\ pc \in {"idle", "done", "raised"}
    /\ sessions < MaxSessions
    /\ \E e \in PlayRoots, b \in Bpms :
          /\ effect' = Written(e, writes)
          /\ made' = e
          /\ seen' = IF e = made THEN seen ELSE {}
          /\ bpm' = b
          /\ n' = Length(e)
          /\ pc' = Following("play", -1, Length(e))
    /\ i' = 0
    /\ sessions' = sessions + 1
    /\ sent' = <<>>
    /\ scan' = 0
    /\ elapsed' = -1
    /\ slept' = FALSE
    /\ warned' = FALSE
    /\ rendered' = <<>>
    /\ frame' = AllOff
    /\ prev_frame' = AllOff
    /\ ticks' = <<>>
    /\ blank_start' = (dev = AllOff)
    /\ exc' = ""
    /\ log' = <<>>
    /\ UNCHANGED <<writes, cur, rnd, sels, heap, buf, back_buf, dev>>
    /\ UNCHANGED algVars

\* reset_buf() of tick i
ResetBuf ==
    /\ pc = "reset"
    /\ LET refs == Swapped(buf, back_buf)
       IN  /\ buf' = refs[1]
           /\ back_buf' = refs[2]
           /\ heap' = ResetHeap(heap, refs)
    /\ pc' = Following(pc, i, n)
    /\ sent' = <<>>
    /\ scan' = 0
    /\ UNCHANGED <<effect, made, writes, seen, cur, rnd, sels, bpm, n, i, dev, elapsed, slept, warned,
                   sessions, rendered, frame, prev_frame, ticks, blank_start, exc, log>>
    /\ UNCHANGED algVars

\* draw_effect(effect, i): effect.notes(i) is evaluated, then the for loop
\* stores the colors; an exception of notes(), or of iterating over None,
\* leaves play
DrawEffect ==
    /\ pc = "draw"
    /\ \E stream \in Streams :
          LET r == Iter(Notes(effect, i, CallState(cur), stream))
              painted == Paint(heap[buf], r.v, 1)
          IN  /\ cur' = r.st.c
              /\ sels' = Recorded(sels, r.st.g, 1)
              /\ effect' = Written(effect, r.st.w)
              /\ writes' = writes \o r.st.w
              /\ IF r.t = "raise"
                 THEN /\ pc' = "raised"
                      /\ exc' = r.x
                      /\ UNCHANGED <<heap, rendered, frame, prev_frame, ticks, log, seen>>
                 ELSE /\ pc' = Following(pc, i, n)
                      /\ heap' = [heap EXCEPT ![buf] = painted]
                      /\ rendered' = r.v
                      /\ frame' = painted
                      /\ prev_frame' = IF i = 0 THEN AllOff ELSE frame
                      /\ ticks' = Append(ticks, i)
                      /\ log' = Append(log, <<"render", i>>)
                      /\ seen' = IF Deterministic(made)
                                 THEN seen \cup {<<i, r.v, sessions>>} ELSE seen
                      /\ UNCHANGED exc
    /\ UNCHANGED <<made, rnd, buf, back_buf, bpm, n, i, sent, scan, dev, elapsed, slept,
                   warned, sessions, blank_start>>
    /\ UNCHANGED algVars

\* write_buf(): its for loop runs on from cell scan to the next cell whose
\* colors differ and sends the message of that cell, or runs to its end
WritePass ==
    LET m == NextChanged(heap[buf], heap[back_buf], scan)
    IN  IF m < BufSize
        THEN /\ sent' = Append(sent, Message(m, Cell(heap[buf], m)))
             /\ dev' = Received(dev, sent', Len(sent'))
             /\ scan' = m + 1
             /\ log' = Append(log, <<"send", i>>)
             /\ pc' = pc
        ELSE /\ scan' = BufSize
             /\ pc' = Following(pc, i, n)
             /\ UNCHANGED <<sent, dev, log>>

\* write_buf() of tick i
WriteBuf ==
    /\ pc = "write"
    /\ WritePass
    /\ UNCHANGED <<effect, made, writes, seen, cur, rnd, sels, heap, buf, back_buf, bpm, n, i, elapsed,
                   slept, warned, sessions, rendered, frame, prev_frame, ticks,
                   blank_start, exc>>
    /\ UNCHANGED algVars

\* the pacing of tick i: sleep, or print the warning; then the next
\* iteration of the for loop, or its end
Pace ==
    /\ pc = "pace"
    /\ \E el \in 0..MaxElapsed :
          /\ elapsed' = el
          /\ IF SleepPositive(bpm, el)
             THEN slept' = TRUE /\ warned' = FALSE
             ELSE slept' = FALSE /\ warned' = TRUE
    /\ i' = i + 1
    /\ pc' = Following(pc, i, n)
    /\ log' = Append(log, <<"pace", i>>)
    /\ UNCHANGED <<effect, made, writes, seen, cur, rnd, sels, heap, buf, back_buf, bpm, n, sent, scan, dev,
                   sessions, rendered, frame, prev_frame, ticks, blank_start, exc>>
    /\ UNCHANGED algVars

\* reset_buf() after the loop
DrainReset ==
    /\ pc = "drain_reset"
    /\ LET refs == Swapped(buf, back_buf)
       IN  /\ buf' = refs[1]
           /\ back_buf' = refs[2]
           /\ heap' = ResetHeap(heap, refs)
    /\ pc' = Following(pc, i, n)
    /\ sent' = <<>>
    /\ scan' = 0
    /\ UNCHANGED <<effect, made, writes, seen, cur, rnd, sels, bpm, n, i, dev, elapsed, slept, warned,
                   sessions, rendered, frame, prev_frame, ticks, blank_start, exc, log>>
    /\ UNCHANGED algVars

\* write_buf() after the loop; play returns
DrainWrite ==
    /\ pc = "drain_write"
    /\ WritePass
    /\ UNCHANGED <<effect, made, writes, seen, cur, rnd, sels, heap, buf, back_buf, bpm, n, i, elapsed,
                   slept, warned, sessions, rendered, frame, prev_frame, ticks,
                   blank_start, exc>>
    /\ UNCHANGED algVars

Next ==
    \/ Play
    \/ ResetBuf
    \/ DrawEffect
    \/ WriteBuf
    \/ Pace
    \/ DrainReset
    \/ DrainWrite

Spec == Init /\ [][Next]_vars

\* ------------------------------------------------------ engine properties
\* number of messages of msgs that address cell m
RECURSIVE CountFor(_, _, _)
CountFor(msgs, m, k) ==
    IF k > Len(msgs) THEN 0
    ELSE (IF MsgCell(msgs[k]) = m THEN 1 ELSE 0) + CountFor(msgs, m, k + 1)

Cells == 0..(BufSize - 1)

\* a position of the 10 x 10 grid: x and y in [-1, 8]
InGrid(pos) == pos[1] \in -1..8 /\ pos[2] \in -1..8

\* the cell of a grid position
CellOf(pos) == (pos[2] + 1) * Width + (pos[1] + 1)

\* C1: the write pass of tick t sends exactly one message for a cell whose
\* color in the frame of tick t differs from its color in the frame of tick
\* t-1 (all-off for t = 0), and none for a cell whose color is the same.
C1_MinimalDiff ==
    pc = "pace" =>
        \A m \in Cells :
            CountFor(sent, m, 1) = IF Cell(frame, m) # Cell(prev_frame, m) THEN 1 ELSE 0

C1_Witness ==
    /\ pc = "pace"
    /\ i = 2
    /\ Cell(frame, 11) = Palette(3)
    /\ Cell(prev_frame, 11) = Palette(3)
    /\ sent = <<>>

C1_WitnessChange ==
    /\ pc = "pace"
    /\ i = 1
    /\ Cell(frame, 11) = Palette(3)
    /\ Cell(prev_frame, 11) = Palette(1)
    /\ Len(sent) = 1

\* C2: when play returns, a device that showed every cell off when play was
\* called shows every cell off, and the drain pass has sent exactly one
\* off message for each cell not off in the last frame and none for the
\* others.
C2_DrainBlanks ==
    (pc = "done" /\ blank_start) =>
        /\ dev = AllOff
        /\ \A m \in Cells :
              CountFor(sent, m, 1) = IF Cell(frame, m) # Off THEN 1 ELSE 0
        /\ \A k \in 1..Len(sent) : sent[k].type = "note_on" /\ sent[k].velocity = 0

C2_Witness ==
    /\ pc = "done"
    /\ blank_start
    /\ sessions = 2
    /\ Cell(frame, 33) = RGB(1, CompDen, 0)
    /\ Len(sent) = 1

\* C3: a positioned color whose x or y lies outside [-1, 8] is written to
\* no cell: after the draw step the current buffer is what the in-grid
\* positioned colors alone produce.
C3_OutOfGridDropped ==
    pc = "write" =>
        heap[buf] = Paint(AllOff, SelectSeq(rendered, LAMBDA nt : InGrid(nt.pos)), 1)

\* C4: after the draw step, a cell targeted by several in-grid positioned
\* colors of the render holds the color of the last of them.
C4_LastWriteWins ==
    pc = "write" =>
        \A m \in Cells :
            LET hits == {k \in 1..Len(rendered) :
                            InGrid(rendered[k].pos) /\ CellOf(rendered[k].pos) = m}
            IN  Cardinality(hits) >= 2 =>
                    \E k \in hits :
                        /\ \A j \in hits : j <= k
                        /\ Cell(heap[buf], m) = rendered[k].color

\* C7: play renders the ticks 0, 1, ..., length-1 once each in increasing
\* order and then drains and returns, no session being aborted; a tick with
\* no positive remainder of the period prints the warning and does not sleep.
C7_EveryTickOnce ==
    /\ pc # "raised"
    /\ \A k \in 1..Len(ticks) : ticks[k] = k - 1
    /\ pc \in {"drain_reset", "drain_write", "done"} => Len(ticks) = Length(effect)
    /\ (elapsed # -1 /\ ~SleepPositive(bpm, elapsed)) => (warned /\ ~slept)
    /\ (elapsed # -1 /\ SleepPositive(bpm, elapsed)) => (slept /\ ~warned)

\* round(num / den) for den > 0, halves going to the even neighbour
RoundHalfEven(num, den) ==
    LET q == num \div den
        r == num - q * den
    IN  IF 2 * r < den THEN q
        ELSE IF 2 * r > den THEN q + 1
        ELSE IF q % 2 = 0 THEN q ELSE q + 1

Clamp(v, lo, hi) == IF v < lo THEN lo ELSE IF v > hi THEN hi ELSE v

\* the RGB messages sent so far in this pass, each with the color it was
\* built from
SentRGB == {k \in 1..Len(sent) : sent[k].type = "sysex"}
ColorSent(k) == Cell(heap[buf], MsgCell(sent[k]))

\* C12: the brightness sent for an RGB component c is
\* clamp(round(c * 63), 0, 63).
C12_BrightnessRounds ==
    \A k \in SentRGB : \A j \in 1..3 :
        sent[k].data[7 + j] =
            Clamp(RoundHalfEven(MAX_BRIGHTNESS * ColorSent(k)[j], CompDen), 0, MAX_BRIGHTNESS)

\* C12, with the scaling as the code computes it: the brightness sent for
\* an RGB component c is an integer
\* b of 0..63: 0 for c * 63 < 0, 63 for c * 63 >= 63, and otherwise the
\* integer part of c * 63 (b <= c * 63 < b + 1), the fraction being dropped
\* rather than rounded.
C12_BrightnessTruncates ==
    \A k \in SentRGB : \A j \in 1..3 :
        LET b == sent[k].data[7 + j]
            num == MAX_BRIGHTNESS * ColorSent(k)[j]
        IN  /\ b \in 0..MAX_BRIGHTNESS
            /\ num < 0 => b = 0
            /\ num >= MAX_BRIGHTNESS * CompDen => b = MAX_BRIGHTNESS
            /\ (num >= 0 /\ num < MAX_BRIGHTNESS * CompDen) =>
                    (b * CompDen <= num /\ num < (b + 1) * CompDen)

C12_Witness ==
    \E k \in SentRGB :
        /\ ColorSent(k) = RGB(-1, CompDen + 1, 1)
        /\ sent[k].data[8] = 0
        /\ sent[k].data[9] = MAX_BRIGHTNESS
        /\ sent[k].data[10] = 31

\* C13: for a root built of deterministic variants only, a render at a tick
\* returns the same positioned colors in the same order as every earlier
\* render of that root at that tick, whatever renders at other ticks, drain
\* passes and play calls lie in between.
C13_Idempotent ==
    (pc = "write" /\ Deterministic(made)) =>
        \A s \in seen : s[1] = i => s[2] = rendered

C13_Witness ==
    /\ pc = "write"
    /\ made = Sequential(<<N1, N2>>)
    /\ sessions = 2
    /\ i = 0
    /\ rendered = <<N1>>
    /\ seen = {<<0, <<N1>>, 1>>, <<1, <<N2>>, 1>>, <<0, <<N1>>, 2>>}

C13_WitnessTranslate ==
    /\ pc = "write"
    /\ made = Translate(Box, <<8, 8>>)
    /\ sessions = 2
    /\ <<0, rendered, 1>> \in seen
    /\ Len(rendered) = 2

\* the place of a kind of step inside its iteration
Rank(kind) == CASE kind = "render" -> 0 [] kind = "send" -> 1 [] kind = "pace" -> 2

\* the steps of the session are in the order of the iterations, and inside
\* an iteration the render comes first, the update events next, the pacing
\* last; an update event of a tick has the render of that tick before it
InOrder ==
    /\ \A k \in 1..(Len(log) - 1) :
          \/ log[k][2] < log[k + 1][2]
          \/ /\ log[k][2] = log[k + 1][2]
             /\ \/ Rank(log[k][1]) < Rank(log[k + 1][1])
                \/ log[k][1] = "send" /\ log[k + 1][1] = "send"
    /\ \A k \in 1..Len(log) :
          (log[k][1] = "send" /\ log[k][2] < n) =>
              \E j \in 1..(k - 1) : log[j] = <<"render", log[k][2]>>

\* C14: every update event of tick t is emitted after the render of tick t
\* and after the whole diff pass of tick t (the loop over the cells has
\* ended when an event is out), before the pacing of tick t and before the
\* render of tick t + 1; the events of different ticks and of the drain
\* pass do not interleave.
C14_AfterFullDiff ==
    /\ InOrder
    /\ sent # <<>> => scan = BufSize

\* C14, with the diff pass as the code runs it: every update event of tick
\* t is emitted after the render of tick t, inside the diff pass of tick t
\* once the loop has compared the event's own cell (the later cells are
\* compared after it), before the pacing of tick t and before the render of
\* tick t + 1; the events of different ticks and of the drain pass do not
\* interleave.
C14_AfterOwnCell ==
    /\ InOrder
    /\ \A k \in 1..Len(sent) : MsgCell(sent[k]) < scan
    /\ pc \in {"write", "drain_write"} =>
          \A k \in 1..Len(sent) : Cell(heap[buf], MsgCell(sent[k])) # Cell(heap[back_buf], MsgCell(sent[k]))
    /\ pc \in {"reset", "draw", "drain_reset"} => (i = 0 \/ log[Len(log)] = <<"pace", i - 1>>)

C14_Witness ==
    /\ pc = "write"
    /\ i = 1
    /\ Len(sent) = 1
    /\ scan < BufSize
    /\ NextChanged(heap[buf], heap[back_buf], scan) < BufSize
    /\ log = <<<<"render", 0>>, <<"send", 0>>, <<"pace", 0>>, <<"render", 1>>, <<"send", 1>>>>

\* C15: a render of a Sequential at a tick at or beyond the sum of its
\* children's lengths, every tick of a Sequential without children
\* included, returns the empty list.
C15_BeyondEndEmpty ==
    (effect.type = "Sequential" /\ op = "notes" /\ tick >= Length(effect)) =>
        (result.t = "list" /\ result.v = <<>>)

\* the Random object a call on the root reaches directly (the root, or the
\* child of a root Loop), and the tick it is rendered at
ReachedRandom ==
    IF effect.type = "Loop" THEN effect.child ELSE effect
ReachedTick ==
    IF effect.type = "Loop" THEN LoopTick(effect, tick) ELSE tick

\* a render, inside the length of the root, of a Random over at least kmin
\* children, alone or as the child of a Loop: at a tick > 0 the held index
\* stays and the value is that of the held child at that tick; at tick 0
\* one selection is made and the value is that of the selected child
HeldThenReselected(kmin) ==
    LET r == ReachedRandom
        t == ReachedTick
        held == pre[r.id]
    IN  (/\ op = "notes"
         /\ tick < Length(effect)
         /\ r.type = "Random"
         /\ Len(r.effects) >= kmin) =>
            /\ t > 0 => cur = pre
            /\ (t > 0 /\ held # NoneVal) =>
                  /\ result.t = "list"
                  /\ result.v = Notes(r.effects[held + 1], t, CallState(pre), rnd).v
            /\ t = 0 =>
                  /\ result.t = "list"
                  /\ Len(result.st.g) = 1
                  /\ cur[r.id] = result.st.g[1][2]
                  /\ result.v = Notes(r.effects[cur[r.id] + 1], 0, CallState(cur), rnd).v

\* C16: a render of a Random at a tick > 0 leaves the held index unchanged
\* and returns what the child chosen by the latest tick-0 render returns;
\* inside Loop(Random(...), n) every iteration starts with one new selection
\* and shows the selected child to its end.
C16_HeldThenReselected == HeldThenReselected(1)

\* C17: the renders and draw steps leave the tree as it was built, the
\* current_effect of its Random objects apart; after RandomColor.notes the
\* notes of its child have the positions and colors they had, so the child
\* rendered alone still returns its original notes.
C17_TreeReadOnly ==
    /\ effect = made
    /\ writes = <<>>
    /\ (pc = "write" /\ made.type = "RandomColor") =>
          /\ Notes(effect.child, i, CallState(cur), rnd).v =
                Notes(made.child, i, CallState(cur), rnd).v
          /\ Len(rendered) = Len(Notes(made.child, i, CallState(cur), rnd).v)

C17_Witness ==
    /\ pc = "write"
    /\ sessions = 2
    /\ made = RandomColor(Box, 1, 2)
    /\ rendered = <<Note(<<0, 0>>, Palette(1)), Note(<<0, 1>>, Palette(2))>>
    /\ Notes(effect.child, i, CallState(cur), rnd).v =
          <<Note(<<0, 0>>, Palette(6)), Note(<<0, 1>>, Palette(6))>>
    /\ \E id \in RandIds : cur[id] # NoneVal

\* C18: a Concurrent or a Random built from no effects has length 0 and
\* its notes() returns the empty list at any tick, raising nothing and
\* selecting nothing; a play whose root has length 0 draws no tick and sends
\* no message, its drain pass included.
C18_EmptyGroup ==
    /\ (sessions > 0 /\ made \in {Concurrent(<<>>), Random(3, <<>>)}) =>
          /\ Length(effect) = 0
          /\ n = 0
          /\ \A t \in 0..MaxTick : \A stream \in Streams :
                Notes(effect, t, CallState(cur), stream) = Ok(<<>>, CallState(cur))
    /\ (sessions > 0 /\ Length(made) = 0) =>
          /\ pc \in {"drain_reset", "drain_write", "done"}
          /\ ticks = <<>>
          /\ rendered = <<>>
          /\ sent = <<>>
          /\ log = <<>>

C18_Witness ==
    /\ pc = "done"
    /\ sessions = 2
    /\ made = Random(3, <<>>)
    /\ scan = BufSize
    /\ sent = <<>>
    /\ ticks = <<>>

C18_WitnessConcurrent ==
    /\ pc = "done"
    /\ made = Concurrent(<<>>)
    /\ scan = BufSize
    /\ sent = <<>>
    /\ dev # AllOff

\* what the device shows once it has received the message of every cell of
\* the list b
ShownBy(b) == [m \in 1..BufSize |-> MsgShown(Message(m - 1, b[m]))]

\* C19: over the play calls on one Launchpad, the device being blank at the
\* first: self.buf and self.back_buf are two list objects; when a diff
\* starts, back_buf holds the frame the device shows (all-off at tick 0);
\* when a write pass has ended, the device shows the colors of buf.
C19_BuffersTrackDevice ==
    /\ buf # back_buf
    /\ (pc \in {"write", "drain_write"} /\ scan = 0) =>
          /\ dev = ShownBy(heap[back_buf])
          /\ (pc = "write" /\ i = 0) => heap[back_buf] = AllOff
    /\ pc \in {"pace", "done"} => dev = ShownBy(heap[buf])

====
